---- MODULE Spec2Model ----
(***************************************************************************)
(* Model of file_cleaner_quarantine.py: the quarantine pass (main's        *)
(* scan-and-move flow, safe_move, write_metadata) and the restore pass     *)
(* (restore_from_quarantine) over an explicit filesystem.                  *)
(*                                                                         *)
(* A path is a sequence of names from the filesystem root.  A name is a    *)
(* record [base, sfx, ext]: pathlib's stem is base followed by "_n" for    *)
(* each n of sfx, and pathlib's suffix is ext.  "x_1.txt" is               *)
(* [base |-> "x", sfx |-> <<1>>, ext |-> ".txt"].                          *)
(***************************************************************************)
EXTENDS Naturals, Sequences, FiniteSets, TLC

VARIABLES
    files,        \* existing regular files: path -> content
    dirs,         \* existing directories: set of paths
    pc,           \* position of the running invocation, "idle" between invocations
    args,         \* command-line arguments of the running invocation
    empty_files,  \* main: the discovered files, in discovery order
    idx,          \* main / restore_from_quarantine: position of the for loop
    moved_meta,   \* main: records of the files moved so far
    records,      \* restore_from_quarantine: the records loaded from metadata.json
    restored,     \* restore_from_quarantine: report bucket
    skipped,      \* restore_from_quarantine: report bucket
    errors,       \* restore_from_quarantine: report bucket
    output,       \* what the invocation printed as its outcome
    pre,          \* history: the filesystem when the running invocation began
    refused,      \* history: operations refused to the running invocation
    last,         \* history: the invocation before, when nothing outside followed it
    events,       \* history: number of events so far
    envs          \* history: number of outside changes so far

vars == <<files, dirs, pc, args, empty_files, idx, moved_meta, records,
          restored, skipped, errors, output, pre, refused, last, events, envs>>

----------------------------------------------------------------------------
(* Bounds of the model. *)

\* files present under the target when the model starts
MaxFiles == 2
\* events of one behaviour: invocations of the program, outside changes to the
\* filesystem, and loop iterations in which the filesystem refuses an operation,
\* counted together
MaxEvents == 4
\* outside changes to the filesystem in one behaviour
MaxEnv == 1

----------------------------------------------------------------------------
(* Names and paths. *)

Nm(b, e) == [base |-> b, sfx |-> <<>>, ext |-> e]

\* f"{stem}_{counter}{suffix}"
Suffixed(name, counter) == [name EXCEPT !.sfx = Append(@, counter)]

Parent(p) == SubSeq(p, 1, Len(p) - 1)

Last(p) == p[Len(p)]

Join(p, rel) == p \o rel

Range(s) == { s[k] : k \in DOMAIN s }

IsPrefix(p, q) == Len(p) <= Len(q) /\ SubSeq(q, 1, Len(p)) = p

\* every ancestor of p, and p itself, below the root
Ancestors(p) == { SubSeq(p, 1, k) : k \in 1..Len(p) }

MetaName == Nm("metadata", ".json")

\* Path(args.target).resolve()
Target == << Nm("t", "") >>

\* make_quarantine_dir: base.joinpath(f"quarantine-{t}").resolve(); the model has
\* one base and one clock reading, so one quarantine directory name
QuarantineDir == << Nm("quarantine-t", "") >>

DirA == Join(Target, << Nm("a", "") >>)

DirMeta == Join(Target, << MetaName >>)

\* where the model's zero-length files may lie under the target
SourceUniverse ==
    { Join(Target, << Nm("x", "") >>),
      Join(Target, << Suffixed(Nm("x", ""), 1) >>),
      Join(DirA, << Nm("x", "") >>),
      Join(DirA, << MetaName >>),
      Join(DirMeta, << Nm("x", "") >>) }

----------------------------------------------------------------------------
(* File contents.  text is "empty" (zero bytes), "data" (bytes that are not *)
(* JSON), "nonarray" (a JSON value that is not an array) or "json" (a JSON  *)
(* array, recs its elements).                                               *)

Empty == [text |-> "empty", recs |-> <<>>]

Data == [text |-> "data", recs |-> <<>>]

NonArray == [text |-> "nonarray", recs |-> <<>>]

JsonArray(rs) == [text |-> "json", recs |-> rs]

\* st_size, as 0 or "some positive size"
StSize(c) == IF c.text = "empty" THEN 0 ELSE 1

\* size: None
NoSize == 2

----------------------------------------------------------------------------
(* Filesystem queries on a state fs = [files, dirs]. *)

FS == [files |-> files, dirs |-> dirs]

\* the filesystem after the step
FSNext == [files |-> files', dirs |-> dirs']

IsFile(fs, p) == p \in DOMAIN fs.files

IsDir(fs, p) == p \in fs.dirs

Exists(fs, p) == IsFile(fs, p) \/ IsDir(fs, p)

\* the entries of directory d
Entries(fs, d) ==
    { p \in (DOMAIN fs.files) \cup fs.dirs : Len(p) = Len(d) + 1 /\ Parent(p) = d }

\* Path.mkdir(parents=True, exist_ok=True) raises when p or an ancestor is a file
MkdirRaises(fs, p) == \E a \in Ancestors(p) : IsFile(fs, a)

Mkdir(fs, p) == [fs EXCEPT !.dirs = @ \cup Ancestors(p)]

\* Path.unlink raises when p is not a regular file
UnlinkRaises(fs, p) == ~IsFile(fs, p)

Unlink(fs, p) ==
    [fs EXCEPT !.files = [q \in (DOMAIN @) \ {p} |-> @[q]]]

\* shutil.move(src, dst): into dst when dst is a directory, else a rename onto dst
RealDst(fs, src, dst) == IF IsDir(fs, dst) THEN Join(dst, << Last(src) >>) ELSE dst

MoveRaises(fs, src, dst) ==
    \/ ~IsFile(fs, src)
    \/ ~IsDir(fs, Parent(RealDst(fs, src, dst))) /\ Len(RealDst(fs, src, dst)) > 1
    \/ IsDir(fs, dst) /\ Exists(fs, RealDst(fs, src, dst))

Move(fs, src, dst) ==
    LET to == RealDst(fs, src, dst)
    IN  [fs EXCEPT !.files =
            [q \in ((DOMAIN @) \ {src}) \cup {to} |-> IF q = to THEN @[src] ELSE @[q]]]

\* Path.write_text raises when p is a directory or its parent is missing
WriteRaises(fs, p) == IsDir(fs, p) \/ ~IsDir(fs, Parent(p))

WriteText(fs, p, c) ==
    [fs EXCEPT !.files = [q \in (DOMAIN @) \cup {p} |-> IF q = p THEN c ELSE @[q]]]

----------------------------------------------------------------------------
(* _unique_path_if_exists *)

Candidate(path, counter) == Join(Parent(path), << Suffixed(Last(path), counter) >>)

\* a variant of _unique_path_if_exists that returns the path as it is
UniquePathAsGiven(fs, path) == path

\* lines 38-43: the while loop, entered with counter; it ends at the first
\* counter whose candidate does not exist
RECURSIVE UniqueFrom(_, _, _)
UniqueFrom(fs, path, counter) ==
    IF ~Exists(fs, Candidate(path, counter))
    THEN Candidate(path, counter)
    ELSE UniqueFrom(fs, path, counter + 1)

\* a variant of _unique_path_if_exists that tries one candidate only
UniquePathFirstCandidate(fs, path) ==
    IF ~Exists(fs, path)
    THEN path
    ELSE Candidate(path, 1)

UniquePathIfExists(fs, path) ==
    IF ~Exists(fs, path)
    THEN path
    ELSE UniqueFrom(fs, path, 1)

----------------------------------------------------------------------------
(* find_empty_files: the zero-length regular files below path (all of them   *)
(* when recursive, else path's own entries).  No name of the model starts    *)
(* with a dot, so ignore_hidden filters nothing.                             *)

FindEmptyFiles(fs, path, recursive) ==
    { p \in DOMAIN fs.files :
        /\ IsPrefix(path, p)
        /\ Len(p) > Len(path)
        /\ recursive \/ Len(p) = Len(path) + 1
        /\ StSize(fs.files[p]) = 0 }

\* the orders in which the iterator may yield a set of paths
RECURSIVE Orders(_)
Orders(S) ==
    IF S = {} THEN { << >> }
    ELSE UNION { { << p >> \o rest : rest \in Orders(S \ {p}) } : p \in S }

----------------------------------------------------------------------------
(* safe_move.  fault: the operating system refuses the relocation.  The     *)
(* result holds the filesystem afterwards, whether the call raised, the     *)
(* final destination and the metadata record (its time field is left out).  *)

MoveRecord(original, moved_to, size, action) ==
    [original |-> original, moved_to |-> moved_to, size |-> size, action |-> action]

DestPath(src, dst_dir, preserve_structure, target_root) ==
    IF preserve_structure
    THEN IF IsPrefix(target_root, src)
         THEN Join(dst_dir, SubSeq(src, Len(target_root) + 1, Len(src)))
         ELSE Join(dst_dir, << Last(src) >>)
    ELSE Join(dst_dir, << Last(src) >>)

SafeMove(fs, src, dst_dir, preserve_structure, target_root, dry_run, fault) ==
    LET dest_path == DestPath(src, dst_dir, preserve_structure, target_root)
        none == MoveRecord(src, src, NoSize, "none")
    IN  IF MkdirRaises(fs, Parent(dest_path))
        THEN [fs |-> fs, raised |-> TRUE, dest |-> dest_path, meta |-> none, hit |-> 0]
        ELSE
        LET fs1 == Mkdir(fs, Parent(dest_path))
            final_dest == UniquePathIfExists(fs1, dest_path)
        IN  IF dry_run
            THEN [fs |-> fs1, raised |-> FALSE, dest |-> final_dest, hit |-> 0,
                  meta |-> MoveRecord(src, final_dest,
                               IF Exists(fs1, src) /\ IsFile(fs1, src)
                               THEN StSize(fs1.files[src]) ELSE NoSize,
                               "dry-run")]
            ELSE IF fault \/ MoveRaises(fs1, src, final_dest)
            THEN [fs |-> fs1, raised |-> TRUE, dest |-> final_dest, meta |-> none,
                  hit |-> IF fault THEN 1 ELSE 0]
            ELSE
            LET fs2 == Move(fs1, src, final_dest)
            IN  [fs |-> fs2, raised |-> FALSE, dest |-> final_dest, hit |-> 0,
                 meta |-> MoveRecord(src, final_dest,
                              IF IsFile(fs2, final_dest)
                              THEN StSize(fs2.files[final_dest]) ELSE NoSize,
                              "moved")]

----------------------------------------------------------------------------
(* write_metadata.  fault: the operating system refuses the write. *)

MetaFile(quarantine_dir) == Join(quarantine_dir, << MetaName >>)

\* json.loads(meta_file.read_text()) raises: on a directory, on zero bytes, on
\* bytes that are not JSON
LoadRaises(fs, meta_file) ==
    \/ IsDir(fs, meta_file)
    \/ IsFile(fs, meta_file) /\ fs.files[meta_file].text \in {"empty", "data"}

WriteMetadata(fs, quarantine_dir, recs, fault) ==
    LET meta_file == MetaFile(quarantine_dir)
        parsed == Exists(fs, meta_file) /\ ~LoadRaises(fs, meta_file)
        existing == IF parsed /\ fs.files[meta_file].text = "json"
                    THEN fs.files[meta_file].recs ELSE << >>
    IN  IF parsed /\ fs.files[meta_file].text = "nonarray"
        THEN \* existing.extend: a JSON value that is no array has no extend
             [fs |-> fs, raised |-> TRUE, hit |-> 0]
        ELSE IF fault \/ WriteRaises(fs, meta_file)
        THEN [fs |-> fs, raised |-> TRUE, hit |-> IF fault THEN 1 ELSE 0]
        ELSE [fs |-> WriteText(fs, meta_file, JsonArray(existing \o recs)),
              raised |-> FALSE, hit |-> 0]

----------------------------------------------------------------------------
(* restore_from_quarantine: the body of the for loop, for one entry.        *)
(* faults: the operations the operating system refuses, out of "stat" (the  *)
(* existence check of moved_to, line 123, which is in no try block),        *)
(* "mkdir", "unlink", "move" (the first relocation tried) and "fallback"    *)
(* (the relocation tried after the overwrite failed).  The result holds the *)
(* filesystem afterwards, the bucket the entry is appended to ("raised"     *)
(* when the exception leaves the loop), the tuple appended, and the number  *)
(* of refusals met.                                                         *)

FaultKinds == {"stat", "mkdir", "unlink", "move", "fallback"}

Hit(faults, kind) == IF kind \in faults THEN 1 ELSE 0

\* restored.append((o, m))
RestoredAs(fs, o, m, n) ==
    [fs |-> fs, bucket |-> "restored", entry |-> << o, m, "" >>, hit |-> n]

\* errors.append((original, moved_to, msg))
ErrorAs(fs, o, m, msg, n) ==
    [fs |-> fs, bucket |-> "errors", entry |-> << o, m, msg >>, hit |-> n]

\* lines 151-158: the except branch of the overwrite
OverwriteFallback(fs, original, moved_to, dry_run, faults, n) ==
    LET candidate == UniquePathIfExists(fs, original)
    IN  IF dry_run
        THEN RestoredAs(fs, candidate, moved_to, n)
        ELSE IF "fallback" \in faults \/ MoveRaises(fs, moved_to, candidate)
        THEN ErrorAs(fs, original, moved_to, "overwrite error", n + Hit(faults, "fallback"))
        ELSE RestoredAs(Move(fs, moved_to, candidate), candidate, moved_to, n)

\* a variant of RestoreOverwrite that never deletes original
RestoreOverwriteKeepsOriginal(fs, original, moved_to, dry_run, faults, n) ==
    OverwriteFallback(fs, original, moved_to, dry_run, faults, n)

\* lines 138-159: original exists and yes
RestoreOverwrite(fs, original, moved_to, dry_run, faults, n) ==
    IF dry_run
    THEN RestoredAs(fs, original, moved_to, n)
    ELSE IF "unlink" \in faults \/ UnlinkRaises(fs, original)
    THEN OverwriteFallback(fs, original, moved_to, dry_run, faults,
                           n + Hit(faults, "unlink"))
    ELSE LET fs1 == Unlink(fs, original)
         IN  IF "move" \in faults \/ MoveRaises(fs1, moved_to, original)
             THEN OverwriteFallback(fs1, original, moved_to, dry_run, faults,
                                    n + Hit(faults, "move"))
             ELSE RestoredAs(Move(fs1, moved_to, original), original, moved_to, n)

\* a variant of RestoreSibling that relocates onto original
RestoreSiblingOntoOriginal(fs, original, moved_to, dry_run, faults, n) ==
    IF dry_run
    THEN RestoredAs(fs, original, moved_to, n)
    ELSE IF "move" \in faults \/ MoveRaises(fs, moved_to, original)
    THEN ErrorAs(fs, original, moved_to, "collision handling error",
                 n + Hit(faults, "move"))
    ELSE RestoredAs(Move(fs, moved_to, original), original, moved_to, n)

\* lines 160-169: original exists and not yes
RestoreSibling(fs, original, moved_to, dry_run, faults, n) ==
    LET candidate == UniquePathIfExists(fs, original)
    IN  IF dry_run
        THEN RestoredAs(fs, candidate, moved_to, n)
        ELSE IF "move" \in faults \/ MoveRaises(fs, moved_to, candidate)
        THEN ErrorAs(fs, original, moved_to, "collision handling error",
                     n + Hit(faults, "move"))
        ELSE RestoredAs(Move(fs, moved_to, candidate), candidate, moved_to, n)

\* a variant of RestoreBack that relocates in a dry run too
RestoreBackInDryRun(fs, original, moved_to, dry_run, faults, n) ==
    IF "move" \in faults \/ MoveRaises(fs, moved_to, original)
    THEN ErrorAs(fs, original, moved_to, "move error", n + Hit(faults, "move"))
    ELSE RestoredAs(Move(fs, moved_to, original), original, moved_to, n)

\* lines 171-177: original does not exist
RestoreBack(fs, original, moved_to, dry_run, faults, n) ==
    IF dry_run
    THEN RestoredAs(fs, original, moved_to, n)
    ELSE IF "move" \in faults \/ MoveRaises(fs, moved_to, original)
    THEN ErrorAs(fs, original, moved_to, "move error", n + Hit(faults, "move"))
    ELSE RestoredAs(Move(fs, moved_to, original), original, moved_to, n)

\* lines 136-177: after the parent directory was dealt with
RestorePlace(fs, original, moved_to, dry_run, yes, faults, n) ==
    IF Exists(fs, original)
    THEN IF yes
         THEN RestoreOverwrite(fs, original, moved_to, dry_run, faults, n)
         ELSE RestoreSibling(fs, original, moved_to, dry_run, faults, n)
    ELSE RestoreBack(fs, original, moved_to, dry_run, faults, n)

\* lines 120-177
RestoreEntry(fs, entry, dry_run, yes, faults) ==
    LET original == entry.original
        moved_to == entry.moved_to
        target_parent == Parent(original)
    IN  IF "stat" \in faults
        THEN \* moved_to.exists() raises, PermissionError for one
             [fs |-> fs, bucket |-> "raised",
              entry |-> << original, moved_to, "PermissionError" >>, hit |-> 1]
        ELSE IF ~Exists(fs, moved_to)
        THEN [fs |-> fs, bucket |-> "skipped",
              entry |-> << original, moved_to, "moved file missing" >>, hit |-> 0]
        ELSE IF ~Exists(fs, target_parent)
        THEN IF dry_run
             THEN RestorePlace(fs, original, moved_to, dry_run, yes, faults, 0)
             ELSE IF "mkdir" \in faults \/ MkdirRaises(fs, target_parent)
             THEN ErrorAs(fs, original, moved_to, "failed to create parent",
                          Hit(faults, "mkdir"))
             ELSE RestorePlace(Mkdir(fs, target_parent), original, moved_to,
                               dry_run, yes, faults, 0)
        ELSE RestorePlace(fs, original, moved_to, dry_run, yes, faults, 0)

\* lines 116-177: the for loop over the loaded records when nothing is refused,
\* with the three buckets it fills
RECURSIVE RestoreLoop(_, _, _, _)
RestoreLoop(fs, recs, dry_run, yes) ==
    IF recs = << >>
    THEN [fs |-> fs, restored |-> << >>, skipped |-> << >>, errors |-> << >>]
    ELSE LET r == RestoreEntry(fs, Head(recs), dry_run, yes, {})
             rest == RestoreLoop(r.fs, Tail(recs), dry_run, yes)
             In(bucket) == IF r.bucket = bucket THEN << r.entry >> ELSE << >>
         IN  [fs |-> rest.fs,
              restored |-> In("restored") \o rest.restored,
              skipped |-> In("skipped") \o rest.skipped,
              errors |-> In("errors") \o rest.errors]

----------------------------------------------------------------------------
(* The state machine: invocations of main, one after the other, and changes *)
(* made to the filesystem from outside between two invocations.  A process  *)
(* keeps nothing in memory from one invocation to the next.                 *)

\* what is remembered of the invocation before the running one: found is what a
\* quarantine pass discovered, recs the records it made or a restore loaded,
\* relocated the number of records a restore that was no dry run restored
NoLast ==
    [kind |-> "none", out |-> "none", faults |-> 0, found |-> {}, recs |-> << >>,
     relocated |-> 0]

NoArgs ==
    [restore |-> FALSE, recursive |-> TRUE, dry_run |-> FALSE, yes |-> FALSE,
     preserve_structure |-> FALSE, confirm |-> FALSE]

\* the command lines of the scan-and-quarantine mode; confirm is the answer typed
\* at the prompt, which only an invocation without --yes and --dry-run reads.
\* Flags that the invocation never reads are left at their default, and the scan
\* is the recursive one.
ScanArgs ==
    { a \in [restore : {FALSE}, recursive : {TRUE}, dry_run : BOOLEAN, yes : BOOLEAN,
             preserve_structure : BOOLEAN, confirm : BOOLEAN] :
        /\ a.yes \/ a.dry_run => ~a.confirm
        /\ a.dry_run => ~a.yes /\ ~a.preserve_structure
        /\ ~a.yes /\ ~a.confirm => ~a.preserve_structure }

\* the command lines of the restore mode
RestoreArgs ==
    { a \in [restore : {TRUE}, recursive : {TRUE}, dry_run : BOOLEAN, yes : BOOLEAN,
             preserve_structure : {FALSE}, confirm : BOOLEAN] :
        a.yes \/ a.dry_run => ~a.confirm }

Init ==
    /\ \E srcs \in SUBSET SourceUniverse :
          /\ Cardinality(srcs) \in 1..MaxFiles
          /\ files = [p \in srcs |-> Empty]
          /\ dirs = {Target} \cup UNION { Ancestors(Parent(p)) : p \in srcs }
    /\ pc = "idle"
    /\ args = NoArgs
    /\ empty_files = << >>
    /\ idx = 1
    /\ moved_meta = << >>
    /\ records = << >>
    /\ restored = << >>
    /\ skipped = << >>
    /\ errors = << >>
    /\ output = "none"
    /\ pre = [files |-> files, dirs |-> dirs]
    /\ refused = 0
    /\ last = NoLast
    /\ events = 0
    /\ envs = 0

\* main, lines 227-257: scan, dry-run return, make_quarantine_dir, confirmation
Scan(a, order) ==
    /\ pc = "idle"
    /\ events < MaxEvents
    /\ a \in ScanArgs
    /\ order \in Orders(FindEmptyFiles(FS, Target, a.recursive))
    /\ args' = a
    /\ pre' = FS
    /\ empty_files' = order
    /\ idx' = 1
    /\ moved_meta' = << >>
    /\ events' = events + 1
    /\ UNCHANGED <<records, restored, skipped, errors, files, refused, last, envs>>
    /\ IF order = << >>
       THEN /\ output' = "No empty files found."
            /\ pc' = "done"
            /\ UNCHANGED dirs
       ELSE IF a.dry_run
       THEN /\ output' = "Dry-run: no files were moved."
            /\ pc' = "done"
            /\ UNCHANGED dirs
       ELSE /\ dirs' = Mkdir(FS, QuarantineDir).dirs
            /\ IF ~a.yes /\ ~a.confirm
               THEN /\ output' = "Aborted by user."
                    /\ pc' = "done"
               ELSE /\ output' = "none"
                    /\ pc' = "moving"

\* main, lines 239-241: what is printed of the discovered files, one line each
ListedPlan(found) == [k \in DOMAIN found |-> << found[k] >>]

\* main, lines 258-264: one iteration of the move loop
MoveNext(fault) ==
    /\ pc = "moving"
    /\ idx <= Len(empty_files)
    /\ fault => events < MaxEvents
    /\ LET r == SafeMove(FS, empty_files[idx], QuarantineDir, args.preserve_structure,
                         Target, FALSE, fault)
       IN  /\ files' = r.fs.files
           /\ dirs' = r.fs.dirs
           /\ moved_meta' = IF r.raised THEN moved_meta ELSE Append(moved_meta, r.meta)
           /\ refused' = refused + r.hit
           /\ events' = events + r.hit
    /\ idx' = idx + 1
    /\ UNCHANGED <<pc, args, empty_files, records, restored, skipped, errors, output,
                   pre, last, envs>>

\* main, lines 266-277: write_metadata and the summary
WriteJournal(fault) ==
    /\ pc = "moving"
    /\ idx > Len(empty_files)
    /\ fault => events < MaxEvents /\ moved_meta # << >>
    /\ LET r == IF moved_meta # << >>
                THEN WriteMetadata(FS, QuarantineDir, moved_meta, fault)
                ELSE [fs |-> FS, raised |-> FALSE, hit |-> 0]
       IN  /\ files' = r.fs.files
           /\ dirs' = r.fs.dirs
           /\ output' = IF r.raised THEN "Warning: failed to write metadata.json"
                        ELSE "Summary"
           /\ refused' = refused + r.hit
           /\ events' = events + r.hit
    /\ pc' = "done"
    /\ UNCHANGED <<args, empty_files, idx, moved_meta, records, restored, skipped,
                   errors, pre, last, envs>>

\* main, lines 279-305, and restore_from_quarantine, lines 105-118: the
\* quarantine directory given with --quarantine, the confirmation, the load of
\* metadata.json.  emptyLoop: a JSON value that is no array either lets the for
\* loop run zero times (an empty object or string) or makes it raise.
RestoreStart(a, emptyLoop) ==
    /\ pc = "idle"
    /\ events < MaxEvents
    /\ a \in RestoreArgs
    /\ args' = a
    /\ pre' = FS
    /\ idx' = 1
    /\ restored' = << >>
    /\ skipped' = << >>
    /\ errors' = << >>
    /\ events' = events + 1
    /\ UNCHANGED <<files, dirs, empty_files, moved_meta, refused, last, envs>>
    /\ LET meta_file == MetaFile(QuarantineDir)
           loaded == IsFile(FS, meta_file) /\ files[meta_file].text = "json"
       IN  /\ records' = IF loaded THEN files[meta_file].recs ELSE << >>
           /\ output' =
                 IF ~IsDir(FS, QuarantineDir)
                 THEN "Provided quarantine path does not exist or is not a directory"
                 ELSE IF ~a.yes /\ ~a.confirm /\ ~a.dry_run
                 THEN "Aborted by user."
                 ELSE IF ~Exists(FS, meta_file)
                 THEN "No metadata.json found"
                 ELSE IF LoadRaises(FS, meta_file)
                 THEN "Failed to read metadata.json"
                 ELSE IF ~loaded /\ ~emptyLoop
                 THEN "Traceback"
                 ELSE "none"
           /\ emptyLoop => IsFile(FS, meta_file) /\ files[meta_file].text = "nonarray"
    /\ pc' = IF output' = "none" THEN "restoring" ELSE "done"

\* restore_from_quarantine, lines 120-177: one iteration of the for loop; an
\* exception raised outside the try blocks ends the process with a traceback
RestoreNext(fs_faults) ==
    /\ pc = "restoring"
    /\ idx <= Len(records)
    /\ fs_faults # {} => events < MaxEvents
    /\ LET r == RestoreEntry(FS, records[idx], args.dry_run, args.yes, fs_faults)
       IN  /\ r.hit = Cardinality(fs_faults)
           /\ files' = r.fs.files
           /\ dirs' = r.fs.dirs
           /\ restored' = IF r.bucket = "restored"
                          THEN Append(restored, r.entry) ELSE restored
           /\ skipped' = IF r.bucket = "skipped"
                         THEN Append(skipped, r.entry) ELSE skipped
           /\ errors' = IF r.bucket = "errors"
                        THEN Append(errors, r.entry) ELSE errors
           /\ refused' = refused + r.hit
           /\ events' = events + (IF r.hit > 0 THEN 1 ELSE 0)
           /\ idx' = IF r.bucket = "raised" THEN idx ELSE idx + 1
           /\ pc' = IF r.bucket = "raised" THEN "done" ELSE pc
           /\ output' = IF r.bucket = "raised" THEN "Traceback" ELSE output
    /\ UNCHANGED <<args, empty_files, moved_meta, records, pre, last, envs>>

\* restore_from_quarantine, lines 179-192: the summary
RestoreSummary ==
    /\ pc = "restoring"
    /\ idx > Len(records)
    /\ pc' = "done"
    /\ output' = "Restore Summary"
    /\ UNCHANGED <<files, dirs, args, empty_files, idx, moved_meta, records,
                   restored, skipped, errors, pre, refused, last, events, envs>>

\* the process exits: what it held in memory is gone, the filesystem stays
Exit ==
    /\ pc = "done"
    /\ pc' = "idle"
    /\ last' = [kind |-> IF args.restore THEN "restore" ELSE "quarantine",
                out |-> output,
                faults |-> refused,
                found |-> Range(empty_files),
                recs |-> IF args.restore THEN records ELSE moved_meta,
                relocated |-> IF args.restore /\ ~args.dry_run
                              THEN Len(restored) ELSE 0]
    /\ args' = NoArgs
    /\ empty_files' = << >>
    /\ idx' = 1
    /\ moved_meta' = << >>
    /\ records' = << >>
    /\ restored' = << >>
    /\ skipped' = << >>
    /\ errors' = << >>
    /\ output' = "none"
    /\ refused' = 0
    /\ pre' = FS
    /\ UNCHANGED <<files, dirs, events, envs>>

\* what every outside change does besides changing the filesystem
Outside ==
    /\ pc = "idle"
    /\ events < MaxEvents
    /\ envs < MaxEnv
    /\ events' = events + 1
    /\ envs' = envs + 1
    /\ last' = NoLast
    /\ pre' = FSNext
    /\ UNCHANGED <<pc, args, empty_files, idx, moved_meta, records, restored,
                   skipped, errors, output, refused>>

\* outside the program: a file appears where a source file was or may be
EnvCreate(p, c) ==
    /\ p \in SourceUniverse
    /\ c \in {Empty, Data}
    /\ ~Exists(FS, p)
    /\ IsDir(FS, Parent(p))
    /\ files' = WriteText(FS, p, c).files
    /\ UNCHANGED dirs
    /\ Outside

\* outside the program: an emptied directory below the target is removed
EnvRmdir(d) ==
    /\ d \in dirs \ {Target, QuarantineDir}
    /\ IsPrefix(Target, d)
    /\ Entries(FS, d) = {}
    /\ dirs' = dirs \ {d}
    /\ UNCHANGED files
    /\ Outside

\* outside the program: the journal file is damaged
EnvCorrupt(c) ==
    /\ c \in {Data, NonArray}
    /\ IsFile(FS, MetaFile(QuarantineDir))
    /\ files[MetaFile(QuarantineDir)].text = "json"
    /\ files' = WriteText(FS, MetaFile(QuarantineDir), c).files
    /\ UNCHANGED dirs
    /\ Outside

\* outside main: a caller of the module plans the move of an empty file with
\* safe_move(dry_run=True) and journals the record it returns with write_metadata
EnvPlan(src) ==
    /\ src \in FindEmptyFiles(FS, Target, TRUE)
    /\ LET m == SafeMove(FS, src, QuarantineDir, FALSE, Target, TRUE, FALSE)
           w == WriteMetadata(m.fs, QuarantineDir, << m.meta >>, FALSE)
       IN  /\ ~m.raised
           /\ ~w.raised
           /\ files' = w.fs.files
           /\ dirs' = w.fs.dirs
    /\ Outside

Next ==
    \/ \E a \in ScanArgs : \E order \in Orders(FindEmptyFiles(FS, Target, a.recursive)) :
          Scan(a, order)
    \/ \E fault \in BOOLEAN : MoveNext(fault)
    \/ \E fault \in BOOLEAN : WriteJournal(fault)
    \/ \E a \in RestoreArgs : \E emptyLoop \in BOOLEAN : RestoreStart(a, emptyLoop)
    \/ \E fs_faults \in SUBSET FaultKinds : RestoreNext(fs_faults)
    \/ RestoreSummary
    \/ Exit
    \/ \E p \in SourceUniverse : \E c \in {Empty, Data} : EnvCreate(p, c)
    \/ \E d \in dirs : EnvRmdir(d)
    \/ \E c \in {Data, NonArray} : EnvCorrupt(c)
    \/ \E src \in SourceUniverse : EnvPlan(src)

Spec == Init /\ [][Next]_vars

----------------------------------------------------------------------------
(* Vocabulary of the properties. *)

\* a quarantine pass ran its move loop and its journal step
PassOut == {"Summary", "Warning: failed to write metadata.json"}

\* the quarantine pass has just finished
PassDone == pc = "done" /\ ~args.restore /\ output \in PassOut

\* a restore has just returned from restore_from_quarantine or from main
RestoreEnded == pc = "done" /\ args.restore /\ output # "Aborted by user."

\* RestoreNext is about to handle, or has just handled, a record
AtRecord == pc = "restoring" /\ idx <= Len(records)

RecordStep == AtRecord /\ idx' = idx + 1

NoFaultInStep == refused' = refused

\* the journal of the quarantine directory, as restore would load it
Journal(fs) ==
    IF IsFile(fs, MetaFile(QuarantineDir)) /\ fs.files[MetaFile(QuarantineDir)].text = "json"
    THEN fs.files[MetaFile(QuarantineDir)].recs
    ELSE << >>

\* the record RestoreNext handles in the step, and the one it handled last
Rec == records[idx]

Handled == records[idx - 1]

----------------------------------------------------------------------------
(* C1.  Round trip: a quarantine pass followed, with no other change to the *)
(* filesystem and no refused operation, by a restore without overwrite (and *)
(* not a dry run) leaves every discovered file at its original path with    *)
(* zero bytes, and the restore report has no skipped entry and no error.    *)

C1_AfterRoundTrip ==
    /\ RestoreEnded
    /\ last.kind = "quarantine"
    /\ last.out \in PassOut
    /\ last.faults = 0
    /\ refused = 0
    /\ ~args.yes
    /\ ~args.dry_run

C1_RoundTrip ==
    C1_AfterRoundTrip =>
        /\ \A p \in last.found : IsFile(FS, p) /\ files[p] = Empty
        /\ output = "Restore Summary"
        /\ skipped = << >>
        /\ errors = << >>

(* C2.  When a quarantine pass has finished and written the journal, every  *)
(* record of the pass in the journal, tagged "moved", has its moved_to on   *)
(* disk as a regular file holding what original held before the pass.       *)

C2_QuarantinedIntact ==
    PassDone /\ output = "Summary" =>
        \A r \in Range(Journal(FS)) \cap Range(moved_meta) :
            r.action = "moved" =>
                /\ IsFile(FS, r.moved_to)
                /\ files[r.moved_to] = pre.files[r.original]

(* C3.  Restore without overwrite, for a record whose moved_to and original *)
(* both exist: the file at original is left as it is, the quarantined file  *)
(* is relocated to the uniquified sibling of original, original's directory *)
(* gains exactly one entry, and the record is reported restored to the      *)
(* sibling.  As claimed (C3_Original) this is stated of every such restore; *)
(* it holds (C3_SiblingRestore) of the restores that are not dry runs and   *)
(* whose relocation is not refused.                                         *)

C3_Case ==
    /\ RecordStep
    /\ ~args.yes
    /\ Exists(FS, Rec.moved_to)
    /\ Exists(FS, Rec.original)

C3_Effect ==
    LET o == Rec.original
        m == Rec.moved_to
        sibling == UniquePathIfExists(FS, o)
    IN  /\ sibling # o
        /\ IsFile(FS, o) => IsFile(FSNext, o) /\ files'[o] = files[o]
        /\ IsDir(FS, o) => IsDir(FSNext, o)
        /\ IsFile(FSNext, sibling) /\ files'[sibling] = files[m]
        /\ ~Exists(FSNext, m)
        /\ Cardinality(Entries(FSNext, Parent(o))) = Cardinality(Entries(FS, Parent(o))) + 1
        /\ restored' = Append(restored, << sibling, m, "" >>)
        /\ skipped' = skipped
        /\ errors' = errors

C4_Case ==
    /\ RecordStep
    /\ args.yes
    /\ ~args.dry_run
    /\ IsFile(FS, Rec.moved_to)
    /\ IsFile(FS, Rec.original)
    /\ NoFaultInStep

C4_Effect ==
    LET o == Rec.original
        m == Rec.moved_to
    IN  /\ IsFile(FSNext, o) /\ files'[o] = files[m]
        /\ ~Exists(FSNext, m)
        /\ Entries(FSNext, Parent(o)) = Entries(FS, Parent(o))
        /\ restored' = Append(restored, << o, m, "" >>)
        /\ skipped' = skipped
        /\ errors' = errors

C4_OverwriteRestore == [][C4_Case => C4_Effect]_vars

C4_Witness ==
    /\ pc = "restoring"
    /\ idx > 1
    /\ args.yes
    /\ ~args.dry_run
    /\ refused = 0
    /\ IsFile(pre, Handled.original)
    /\ IsFile(pre, Handled.moved_to)
    /\ pre.files[Handled.original] # pre.files[Handled.moved_to]
    /\ restored # << >>
    /\ restored[Len(restored)] = << Handled.original, Handled.moved_to, "" >>
    /\ IsFile(FS, Handled.original)
    /\ files[Handled.original] = pre.files[Handled.moved_to]

(* C5.  A dry-run restore changes nothing on disk: from its start to its    *)
(* end, whatever the journal, the filesystem and the overwrite setting, the *)
(* existing paths and their contents are those of its start.                *)

C5_DryRunRestoreFrame ==
    pc \in {"restoring", "done"} /\ args.restore /\ args.dry_run => FS = pre

C5_Witness ==
    /\ RestoreEnded
    /\ args.dry_run
    /\ output = "Restore Summary"
    /\ restored # << >>
    /\ \E r \in Range(records) : ~Exists(FS, Parent(r.original))

(* C6.  A dry-run restore reports what the real restore reports: when a     *)
(* restore that is not a dry run ends with no operation refused, its three  *)
(* buckets are those a dry run computes from the same journal, the same     *)
(* starting filesystem and the same overwrite setting.                      *)

C6_DryRunSameReport ==
    RestoreEnded /\ output = "Restore Summary" /\ ~args.dry_run /\ refused = 0 =>
        LET dry == RestoreLoop(pre, records, TRUE, args.yes)
        IN  /\ restored = dry.restored
            /\ skipped = dry.skipped
            /\ errors = dry.errors

(* C7.  Restore twice: when a quarantine pass was followed by a restore     *)
(* that relocated every quarantined file, a second restore skips every      *)
(* journal record with "moved file missing", restores none, reports no      *)
(* error and leaves the filesystem as it found it.                          *)

C7_Case ==
    /\ RestoreEnded
    /\ refused = 0
    /\ last.kind = "restore"
    /\ last.out = "Restore Summary"
    /\ last.recs # << >>
    /\ last.relocated = Len(last.recs)
    /\ \A r \in Range(last.recs) : ~Exists(pre, r.moved_to)

C7_SecondRestoreSkipsAll ==
    C7_Case =>
        /\ output = "Restore Summary"
        /\ restored = << >>
        /\ errors = << >>
        /\ skipped = [k \in 1..Len(last.recs) |->
                        << last.recs[k].original, last.recs[k].moved_to,
                           "moved file missing" >>]
        /\ FS = pre

(* C8.  Failure isolation: when a quarantine pass in which one relocation   *)
(* was refused has finished, every discovered file was attempted, the file  *)
(* refused is still at its original path, the records are those of the      *)
(* files moved, in discovery order, and the journal holds them after the    *)
(* records it held before.                                                  *)

Position(seq, x) == CHOOSE k \in DOMAIN seq : seq[k] = x

C8_FailureIsolation ==
    PassDone /\ refused = 1 /\ Len(moved_meta) = Len(empty_files) - 1 =>
        /\ idx = Len(empty_files) + 1
        /\ \A k \in DOMAIN moved_meta :
              /\ moved_meta[k].original \in Range(empty_files)
              /\ ~Exists(FS, moved_meta[k].original)
              /\ \A j \in DOMAIN moved_meta :
                    j < k => Position(empty_files, moved_meta[j].original)
                               < Position(empty_files, moved_meta[k].original)
        /\ \A p \in Range(empty_files) :
              p \notin { moved_meta[k].original : k \in DOMAIN moved_meta } =>
                  IsFile(FS, p) /\ files[p] = pre.files[p]
        /\ moved_meta # << >> => Journal(FS) = Journal(pre) \o moved_meta

(* C9.  Restorability: when a quarantine pass with no refused operation has *)
(* finished, every file it relocated into the quarantine directory has a    *)
(* record in the journal with its original and its moved_to.                *)

C9_Restorable ==
    PassDone /\ refused = 0 =>
        \A r \in Range(moved_meta) :
            \E j \in Range(Journal(FS)) :
                j.original = r.original /\ j.moved_to = r.moved_to

(* C10.  write_metadata, when the write itself is not refused: onto a       *)
(* journal that parses, the journal becomes the old records followed by the *)
(* new ones; with no journal file, or a journal file whose content is not a *)
(* record array, the call does not fail and the journal becomes the new     *)
(* records.                                                                 *)

C10_Case ==
    /\ pc = "moving"
    /\ idx > Len(empty_files)
    /\ pc' = "done"
    /\ moved_meta # << >>
    /\ NoFaultInStep

C10_Append ==
    [][C10_Case =>
        LET meta_file == MetaFile(QuarantineDir)
            parses == IsFile(FS, meta_file) /\ files[meta_file].text = "json"
            corrupt == IsFile(FS, meta_file) /\ files[meta_file].text # "json"
        IN  /\ parses =>
                /\ IsFile(FSNext, meta_file)
                /\ files'[meta_file] = JsonArray(files[meta_file].recs \o moved_meta)
            /\ ~Exists(FS, meta_file) \/ corrupt =>
                /\ output' = "Summary"
                /\ IsFile(FSNext, meta_file)
                /\ files'[meta_file] = JsonArray(moved_meta)]_vars

(* C11.  Restore never modifies the journal: when a restore has returned,   *)
(* the journal file it found at metadata.json in the quarantine directory   *)
(* is still there and holds the record sequence it held before the run.     *)

C11_JournalKept ==
    /\ RestoreEnded
    /\ IsFile(pre, MetaFile(QuarantineDir))
    /\ pre.files[MetaFile(QuarantineDir)].text = "json"
    => /\ IsFile(FS, MetaFile(QuarantineDir))
       /\ files[MetaFile(QuarantineDir)] = pre.files[MetaFile(QuarantineDir)]

(* C13.  User abort happens before any mutation: when the confirmation of   *)
(* either mode was declined, the filesystem is as it was before the         *)
(* invocation.                                                              *)

C13_AbortFrame ==
    pc = "done" /\ output = "Aborted by user." => FS = pre

(* C12.  Restore never replays a record whose action is "dry-run": the step *)
(* that handles such a record relocates, deletes and creates nothing and    *)
(* does not report the record as restored.                                  *)

C12_NoReplayOfDryRun ==
    [][RecordStep /\ Rec.action = "dry-run" =>
          FSNext = FS /\ restored' = restored]_vars

(* C14.  Dry-run quarantine: when a dry-run pass has finished, the          *)
(* filesystem is as it was before the pass, and the plan it printed lists   *)
(* every discovered file together with the destination safe_move would give *)
(* it.                                                                      *)

C14_DryRunPlan ==
    pc = "done" /\ ~args.restore /\ output = "Dry-run: no files were moved." =>
        /\ FS = pre
        /\ Len(ListedPlan(empty_files)) = Len(empty_files)
        /\ \A k \in DOMAIN empty_files :
              ListedPlan(empty_files)[k] =
                  << empty_files[k],
                     SafeMove(pre, empty_files[k], QuarantineDir, args.preserve_structure,
                              Target, TRUE, FALSE).dest >>

(* C15.  _unique_path_if_exists: for a path that does not exist the result  *)
(* is the path; for a path that exists the result differs from it, does not *)
(* exist, and is {stem}_{n}{ext} in the path's directory for the smallest   *)
(* n >= 1 whose candidate does not exist, with the path's own extension;    *)
(* the result depends on which paths exist and on nothing else.             *)

\* the paths the function is asked about: what exists, where the model's files
\* may lie, and where a pass or a restore may want to put them
PathUniverse ==
    (DOMAIN files) \cup dirs \cup SourceUniverse
        \cup { Join(QuarantineDir, << Last(p) >>) : p \in SourceUniverse }

\* the same existing paths, every file with other content
OtherContent(fs) == [fs EXCEPT !.files = [p \in DOMAIN @ |-> Data]]

C15_Unique ==
    \A P \in PathUniverse :
        LET u == UniquePathIfExists(FS, P)
            top == Cardinality(DOMAIN files) + Cardinality(dirs) + 1
        IN  /\ ~Exists(FS, P) => u = P
            /\ Exists(FS, P) =>
                  /\ u # P
                  /\ ~Exists(FS, u)
                  /\ Parent(u) = Parent(P)
                  /\ Last(u).ext = Last(P).ext
                  /\ \E n \in 1..top :
                        /\ u = Candidate(P, n)
                        /\ Last(u) = [Last(P) EXCEPT !.sfx = Append(@, n)]
                        /\ \A m \in 1..(n - 1) : Exists(FS, Candidate(P, m))
            /\ UniquePathIfExists(OtherContent(FS), P) = u

\* a pass has just moved a file to the second candidate of its destination
C15_Witness ==
    /\ pc = "moving"
    /\ moved_meta # << >>
    /\ LET r == moved_meta[Len(moved_meta)]
           d == Join(QuarantineDir, << Last(r.original) >>)
       IN  /\ r.moved_to = Candidate(d, 2)
           /\ IsFile(FS, d)
           /\ IsFile(FS, Candidate(d, 1))
           /\ IsFile(FS, r.moved_to)
           /\ ~Exists(pre, r.moved_to)

(* C16.  Collision policy of a pass without --preserve-structure: every     *)
(* move goes to a path that does not exist and that no earlier move of the  *)
(* pass went to, the files moved earlier stay as they are, and among the    *)
(* files of one name coming from different directories the first keeps the  *)
(* name and the k-th is suffixed _(k-1).  As claimed (C16_Original) the     *)
(* naming is stated of every such pass; it holds (C16_CollisionPolicy) when  *)
(* the names the file could get in the quarantine directory are held by     *)
(* nothing but files of that name moved earlier in the pass, and otherwise  *)
(* the file gets the first of name, name_1, name_2, ... that is free.       *)

\* MoveNext moves a file in a pass that flattens
C16_Case ==
    /\ pc = "moving"
    /\ idx <= Len(empty_files)
    /\ ~args.preserve_structure
    /\ moved_meta' # moved_meta

\* the records of the pass so far for files named as src is
SameName(src) == { k \in DOMAIN moved_meta : Last(moved_meta[k].original) = Last(src) }

\* another file of the pass has the name of src and lies in another directory
Collides(src) ==
    \E p \in Range(empty_files) : Last(p) = Last(src) /\ Parent(p) # Parent(src)

\* the name in the quarantine directory, and the k-th file of the name suffixed
Flat(src) == Join(QuarantineDir, << Last(src) >>)

Numbered(src) ==
    IF SameName(src) = {} THEN Flat(src)
    ELSE Candidate(Flat(src), Cardinality(SameName(src)))

\* Flat(src) and its candidates are held by files of that name of this pass only
OwnNamesOnly(src) ==
    \A e \in Entries(FS, QuarantineDir) :
        (e = Flat(src) \/ \E n \in 1..(Cardinality(Entries(FS, QuarantineDir)) + 1) :
                              e = Candidate(Flat(src), n))
            => \E k \in SameName(src) : moved_meta[k].moved_to = e

C16_NoOverwrite ==
    LET src == empty_files[idx]
        to == moved_meta'[Len(moved_meta')].moved_to
    IN  /\ moved_meta' = Append(moved_meta, MoveRecord(src, to, 0, "moved"))
        /\ to = UniquePathIfExists(FS, Flat(src))
        /\ ~Exists(FS, to)
        /\ \A k \in DOMAIN moved_meta : moved_meta[k].moved_to # to
        /\ \A k \in DOMAIN moved_meta :
              IsFile(FS, moved_meta[k].moved_to) =>
                  /\ IsFile(FSNext, moved_meta[k].moved_to)
                  /\ files'[moved_meta[k].moved_to] = files[moved_meta[k].moved_to]
        /\ IsFile(FSNext, to) /\ files'[to] = files[src]

C16_Original ==
    [][C16_Case =>
          /\ C16_NoOverwrite
          /\ Collides(empty_files[idx]) =>
                moved_meta'[Len(moved_meta')].moved_to = Numbered(empty_files[idx])]_vars

C16_CollisionPolicy ==
    [][C16_Case =>
          /\ C16_NoOverwrite
          /\ OwnNamesOnly(empty_files[idx]) =>
                moved_meta'[Len(moved_meta')].moved_to = Numbered(empty_files[idx])]_vars

\* two files of one name from two directories were moved, the second suffixed _1
C16_Witness ==
    /\ pc = "moving"
    /\ ~args.preserve_structure
    /\ Len(moved_meta) = 2
    /\ Last(moved_meta[1].original) = Last(moved_meta[2].original)
    /\ Parent(moved_meta[1].original) # Parent(moved_meta[2].original)
    /\ moved_meta[1].moved_to = Flat(moved_meta[1].original)
    /\ moved_meta[2].moved_to = Candidate(Flat(moved_meta[1].original), 1)
    /\ IsFile(FS, moved_meta[1].moved_to)
    /\ IsFile(FS, moved_meta[2].moved_to)

(* C17.  A restore over a journal of n records completes with a report that *)
(* holds every record once: each iteration of the loop, whatever the        *)
(* filesystem refuses in it, appends the record to exactly one of restored, *)
(* skipped and errors and goes on to the next record; so the buckets hold   *)
(* as many entries as there are records handled, and when the restore ends  *)
(* the summary is printed and they hold all n.                              *)

\* the step appends entry e to bucket b
Appended(b, bNext, e) == bNext = Append(b, e)

\* a restore that loaded records is in its loop or has ended
C17_Counted ==
    args.restore /\ pc \in {"restoring", "done"} /\ records # << >>
        /\ output # "Aborted by user." =>
            /\ Len(restored) + Len(skipped) + Len(errors) = idx - 1
            /\ pc = "done" => output = "Restore Summary" /\ idx = Len(records) + 1

C17_OneBucket ==
    AtRecord /\ <<idx, restored, skipped, errors, pc>>' # <<idx, restored, skipped, errors, pc>> =>
        /\ idx' = idx + 1
        /\ pc' = "restoring"
        /\ records' = records
        /\ \/ /\ \E o \in { Rec.original, UniquePathIfExists(FS, Rec.original) } :
                    Appended(restored, restored', << o, Rec.moved_to, "" >>)
              /\ skipped' = skipped /\ errors' = errors
           \/ /\ Appended(skipped, skipped', << Rec.original, Rec.moved_to, "moved file missing" >>)
              /\ restored' = restored /\ errors' = errors
           \/ /\ \E msg \in {"failed to create parent", "overwrite error",
                             "collision handling error", "move error"} :
                    Appended(errors, errors', << Rec.original, Rec.moved_to, msg >>)
              /\ restored' = restored /\ skipped' = skipped

C17_EveryRecordReported == [](C17_Counted) /\ [][C17_OneBucket]_vars

(* C18.  Overwrite fallback: in a restore with overwrite that is no dry run, *)
(* for a record whose moved_to and original both exist, when the deletion   *)
(* of original or the relocation onto original fails, the quarantined file  *)
(* is relocated to a uniquified sibling of original, a path other than      *)
(* original, and the record is reported restored to that sibling; the       *)
(* record goes to errors only when the fallback relocation fails too.       *)

C18_Case ==
    /\ RecordStep
    /\ args.yes
    /\ ~args.dry_run
    /\ IsFile(FS, Rec.moved_to)
    /\ Exists(FS, Rec.original)
    /\ \/ refused' > refused
       \/ UnlinkRaises(FS, Rec.original)
       \/ MoveRaises(Unlink(FS, Rec.original), Rec.moved_to, Rec.original)

C18_Effect ==
    LET o == Rec.original
        m == Rec.moved_to
    IN  \/ /\ \E sibling \in (DOMAIN files') \ {o} :
                 /\ Parent(sibling) = Parent(o)
                 /\ ~Exists(FS, sibling)
                 /\ files'[sibling] = files[m]
                 /\ restored' = Append(restored, << sibling, m, "" >>)
           /\ ~Exists(FSNext, m)
           /\ errors' = errors
           /\ skipped' = skipped
        \/ /\ errors' = Append(errors, << o, m, "overwrite error" >>)
           /\ restored' = restored
           /\ skipped' = skipped
           /\ refused' > refused

C18_OverwriteFallback == [][C18_Case => C18_Effect]_vars

(* C19.  Restore records are independent of each other: for a loaded        *)
(* journal whose records have pairwise distinct original and pairwise       *)
(* distinct moved_to, the path each record's file is restored to and the    *)
(* bucket each record is reported in are the same in whatever order the     *)
(* loop handles the records.                                                *)

DistinctRecords(recs) ==
    \A i, j \in DOMAIN recs :
        i # j => recs[i].original # recs[j].original /\ recs[i].moved_to # recs[j].moved_to

\* per moved_to: where the loop restored it to, or the bucket it fell in
Outcome(res) ==
    [restored |-> { << e[2], e[1] >> : e \in Range(res.restored) },
     skipped |-> { e[2] : e \in Range(res.skipped) },
     errors |-> { e[2] : e \in Range(res.errors) }]

C19_OrderIndependent ==
    pc = "restoring" /\ idx = 1 /\ DistinctRecords(records) =>
        \A order \in Orders(Range(records)) :
            Outcome(RestoreLoop(FS, order, args.dry_run, args.yes))
                = Outcome(RestoreLoop(FS, records, args.dry_run, args.yes))

(* C20.  No content is lost by a failed restore step: when the loop reports *)
(* a record in errors, the quarantined file is still at moved_to with its   *)
(* content, and what was at original before the step is still there with    *)
(* its content.                                                             *)

C20_NothingLostOnError ==
    [][RecordStep /\ errors' # errors =>
          LET o == Rec.original
              m == Rec.moved_to
          IN  /\ IsFile(FS, m) => IsFile(FSNext, m) /\ files'[m] = files[m]
              /\ IsDir(FS, m) => IsDir(FSNext, m)
              /\ IsFile(FS, o) => IsFile(FSNext, o) /\ files'[o] = files[o]
              /\ IsDir(FS, o) => IsDir(FSNext, o)]_vars

====
